---- MODULE Spec2Model ----
(***************************************************************************)
(* Upload validation of app/lib/storage/validation.ts: magic-byte MIME     *)
(* detection, the per-file and total size limits, validateFile and         *)
(* validateFiles.  A byte is a number in 0..255, a buffer a sequence of    *)
(* bytes, a File a record of its name, declared type, declared size and    *)
(* bytes.                                                                  *)
(***************************************************************************)
EXTENDS Integers, Sequences, FiniteSets, TLC

VARIABLES
    pc,              \* control point of the call in progress
    fn,              \* the exported function that was called
    files,           \* validateFiles' argument; <<file>> for a validateFile call
    idx,             \* position of the for-of loop (1-based)
    validatedFiles,  \* validateFiles' local array
    buffer,          \* validateFile's local buffer / detectMimeType's argument
    result,          \* the value validateFile returned last
    ret,             \* the value the called function returned
    trace,           \* the calls made so far during this call, in order
    prev,            \* file and result of the validateFile call just before
    arg,             \* the argument of a call of one of the pure helpers
    seen,            \* an earlier call that is remembered: its input and outcome
    other,           \* the call that is suspended at an await, if there is one
    step,            \* where the run of the setup script stands
    script,          \* the version of the setup script that is running
    attempts,        \* the wait loop's counter
    dbPassword,      \* the script's dbPassword
    events,          \* commands run and lines printed by this run, in order
    exitCode,        \* status the run ended with
    envPassword,     \* password in the DATABASE_URL of the project's .env
    containerPassword, \* POSTGRES_PASSWORD the project's container was created with
    handler,         \* the route handler or session helper that is running
    at,              \* where it stands
    request,         \* the request it was given
    session,         \* its local session
    response,        \* its local response: what the auth API answered
    settled,         \* how its promise settled: what it returned or threw
    apiCalls         \* the calls of auth.api it has made, in order

\* the call in progress: what a suspended call keeps
call == <<pc, fn, files, idx, validatedFiles, buffer, result, ret, trace>>

\* the run of the setup script and what it leaves in the project directory
setup == <<step, script, attempts, dbPassword, events, exitCode, envPassword,
           containerPassword>>

\* a run of a route handler of login.tsx / register.tsx or of requireSession /
\* requireNoSession
route == <<handler, at, request, session, response, settled, apiCalls>>

\* what no step of validateFile or validateFiles touches
rest == <<seen, other, setup, route>>

\* what no step of the setup script touches
upload == <<call, prev, arg, seen, other, route>>

\* what no step of a route handler touches
beside == <<call, prev, arg, seen, other, setup>>

vars == <<pc, fn, files, idx, validatedFiles, buffer, result, ret, trace, prev,
          arg, seen, other, step, script, attempts, dbPassword, events,
          exitCode, envPassword, containerPassword, handler, at, request,
          session, response, settled, apiCalls>>

----------------------------------------------------------------------------
(* Bounds of the model *)

\* longest batch handed to validateFiles
MaxFiles == 5
\* longest zero padding appended to a signature
MaxPayload == 1
\* how far around 0, MAX_FILE_SIZE and MAX_TOTAL_SIZE the size arguments go
Slack == 2
\* longest file name handed to generateStorageKey
MaxNameLen == 2
\* longest batch in the runs that remember an earlier call or run two calls
MaxSmallBatch == 2

----------------------------------------------------------------------------
(* Constants of validation.ts *)

ALLOWED_MIME_TYPES == <<"image/png", "image/jpeg", "image/gif", "image/webp">>

MAX_FILE_SIZE == 5 * 1024 * 1024
MAX_TOTAL_SIZE == 20 * 1024 * 1024

\* Object.entries(MAGIC_BYTES) iterates the keys in insertion order
MAGIC_BYTES_KEYS == <<"image/png", "image/jpeg", "image/gif", "image/webp">>

\* the table with the PNG row's signature pasted into the GIF row as well
MAGIC_BYTES_copiedRow ==
    [mt \in {"image/png", "image/jpeg", "image/gif", "image/webp"} |->
        CASE mt = "image/png"  -> << <<137, 80, 78, 71, 13, 10, 26, 10>> >>
          [] mt = "image/jpeg" -> << <<255, 216, 255, 224>>,
                                     <<255, 216, 255, 225>>,
                                     <<255, 216, 255, 226>>,
                                     <<255, 216, 255, 219>>,
                                     <<255, 216, 255, 238>> >>
          [] mt = "image/gif"  -> << <<137, 80, 78, 71, 13, 10, 26, 10>>,
                                     <<71, 73, 70, 56, 57, 97>> >>
          [] mt = "image/webp" -> << <<82, 73, 70, 70>> >>]

MAGIC_BYTES ==
    [mt \in {"image/png", "image/jpeg", "image/gif", "image/webp"} |->
        CASE mt = "image/png"  -> << <<137, 80, 78, 71, 13, 10, 26, 10>> >>
          [] mt = "image/jpeg" -> << <<255, 216, 255, 224>>,
                                     <<255, 216, 255, 225>>,
                                     <<255, 216, 255, 226>>,
                                     <<255, 216, 255, 219>>,
                                     <<255, 216, 255, 238>> >>
          [] mt = "image/gif"  -> << <<71, 73, 70, 56, 55, 97>>,
                                     <<71, 73, 70, 56, 57, 97>> >>
          [] mt = "image/webp" -> << <<82, 73, 70, 70>> >>]

\* the string "WEBP" as character codes
WEBP == <<87, 69, 66, 80>>

Null == "null"

----------------------------------------------------------------------------
(* Buffer primitives *)

\* buffer.slice(start, end): bytes start..end-1 (0-based), clamped to the length
slice(buf, start, end) ==
    LET e == IF end > Len(buf) THEN Len(buf) ELSE end
    IN  IF start >= e THEN <<>> ELSE SubSeq(buf, start + 1, e)

\* Buffer.prototype.toString("ascii"): every byte is decoded with its highest
\* bit unset (byte & 0x7f); the result is the sequence of character codes
toStringAscii(buf) == [i \in 1..Len(buf) |-> buf[i] % 128]

\* signature.every((byte, index) => buffer[index] === byte)
every(signature, buf) ==
    \A index \in 1..Len(signature) : buf[index] = signature[index]

\* the WebP branch of detectMimeType: TRUE when it returns the MIME type,
\* FALSE when it falls through to `continue`
webpMarkerMatches(buf) ==
    /\ Len(buf) >= 12
    /\ toStringAscii(slice(buf, 8, 12)) = WEBP

RECURSIVE detectFrom(_, _, _)
\* the two nested loops of detectMimeType, resumed at kind k, signature s
detectFrom(buf, k, s) ==
    IF k > Len(MAGIC_BYTES_KEYS) THEN Null
    ELSE LET mimeType == MAGIC_BYTES_KEYS[k]
             signatures == MAGIC_BYTES[mimeType]
         IN  IF s > Len(signatures) THEN detectFrom(buf, k + 1, 1)
             ELSE IF Len(buf) >= Len(signatures[s]) /\ every(signatures[s], buf)
                  THEN IF mimeType = "image/webp"
                       THEN IF webpMarkerMatches(buf)
                            THEN mimeType
                            ELSE detectFrom(buf, k, s + 1)
                       ELSE mimeType
                  ELSE detectFrom(buf, k, s + 1)

detectMimeType(buf) == detectFrom(buf, 1, 1)

\* the orders in which the kinds of the table could be iterated
KeyOrders ==
    {order \in [1..Len(MAGIC_BYTES_KEYS) -> DOMAIN MAGIC_BYTES] :
        \A i, j \in 1..Len(MAGIC_BYTES_KEYS) : i # j => order[i] # order[j]}

\* a row of the table, front to back or back to front
signaturesIn(mimeType, backwards) ==
    LET row == MAGIC_BYTES[mimeType]
    IN  IF backwards THEN [i \in 1..Len(row) |-> row[Len(row) + 1 - i]] ELSE row

RECURSIVE detectInOrderFrom(_, _, _, _, _)
\* the two nested loops of detectMimeType with the kinds iterated in the given
\* order and the signatures of a kind front to back or back to front
detectInOrderFrom(buf, order, backwards, k, s) ==
    IF k > Len(order) THEN Null
    ELSE LET mimeType == order[k]
             signatures == signaturesIn(mimeType, backwards)
         IN  IF s > Len(signatures)
             THEN detectInOrderFrom(buf, order, backwards, k + 1, 1)
             ELSE IF Len(buf) >= Len(signatures[s]) /\ every(signatures[s], buf)
                  THEN IF mimeType = "image/webp"
                       THEN IF webpMarkerMatches(buf)
                            THEN mimeType
                            ELSE detectInOrderFrom(buf, order, backwards, k, s + 1)
                       ELSE mimeType
                  ELSE detectInOrderFrom(buf, order, backwards, k, s + 1)

detectInOrder(buf, order, backwards) ==
    detectInOrderFrom(buf, order, backwards, 1, 1)

isAllowedMimeType(mimeType) ==
    \E i \in 1..Len(ALLOWED_MIME_TYPES) : ALLOWED_MIME_TYPES[i] = mimeType

\* validateFileSize with >= 0 for > 0
validateFileSize_allowsZero(size) == size >= 0 /\ size <= MAX_FILE_SIZE

validateFileSize(size) == size > 0 /\ size <= MAX_FILE_SIZE

\* validateTotalSize with the lower bound of validateFileSize copied in
validateTotalSize_positive(totalSize) ==
    totalSize > 0 /\ totalSize <= MAX_TOTAL_SIZE

\* validateTotalSize with < for <=
validateTotalSize_strict(totalSize) == totalSize < MAX_TOTAL_SIZE

validateTotalSize(totalSize) == totalSize <= MAX_TOTAL_SIZE

\* the table of getFileExtension
extensions ==
    [mt \in {"image/png", "image/jpeg", "image/gif", "image/webp"} |->
        CASE mt = "image/png"  -> ".png"
          [] mt = "image/jpeg" -> ".jpg"
          [] mt = "image/gif"  -> ".gif"
          [] mt = "image/webp" -> ".webp"]

\* getFileExtension looking the MIME subtype up: ".jpeg" for image/jpeg
getFileExtension_subtype(mimeType) ==
    IF mimeType = "image/jpeg" THEN ".jpeg" ELSE extensions[mimeType]

getFileExtension(mimeType) == extensions[mimeType]

----------------------------------------------------------------------------
(* generateStorageKey of auth.server.ts.  A string is the sequence of its     *)
(* UTF-16 code units.                                                         *)

\* the character class [a-zA-Z0-9.-]
isSafeChar(c) ==
    \/ c \in 97..122
    \/ c \in 65..90
    \/ c \in 48..57
    \/ c = 46
    \/ c = 45

\* filename.replace(/[^a-zA-Z0-9.-]/, "_") without the g flag: the first
\* match only
replaceUnsafe_firstOnly(filename) ==
    [i \in 1..Len(filename) |->
        IF ~isSafeChar(filename[i]) /\ \A j \in 1..(i - 1) : isSafeChar(filename[j])
        THEN 95
        ELSE filename[i]]

\* filename.replace(/[^a-zA-Z0-9.-]/g, "_")
replaceUnsafe(filename) ==
    [i \in 1..Len(filename) |-> IF isSafeChar(filename[i]) THEN filename[i] ELSE 95]

RECURSIVE toDecimal(_)
\* `${timestamp}`: the decimal digits of a non-negative integer
toDecimal(n) ==
    IF n < 10 THEN <<48 + n>> ELSE toDecimal(n \div 10) \o <<48 + (n % 10)>>

\* generateStorageKey, with the value Date.now() gave
generateStorageKey(folder, entityId, filename, timestamp) ==
    LET safeName == replaceUnsafe(filename)
    IN  folder \o <<47>> \o entityId \o <<47>> \o toDecimal(timestamp)
           \o <<45>> \o safeName

----------------------------------------------------------------------------
(* Results: the object literals the functions return *)

Undefined == [undefined |-> TRUE]

SizeError(name) == "File \"" \o name \o "\" exceeds maximum size of 5MB"

NotImageError(name) ==
    "File \"" \o name \o "\" is not a valid image (PNG, JPG, GIF, or WebP)"

TotalSizeError == "Total file size exceeds 20MB limit"

\* a rejection that leaves the optional error field out
Rejected_noMessage(message) == [valid |-> FALSE]

Rejected(message) == [valid |-> FALSE, error |-> message]

Accepted(mimeType) == [valid |-> TRUE, mimeType |-> mimeType]

AcceptedBatch(validated) == [valid |-> TRUE, validatedFiles |-> validated]

RECURSIVE reduceSize(_, _)
\* files.reduce((sum, file) => sum + file.size, 0), folded from index i on
reduceSize(fs, i) ==
    IF i > Len(fs) THEN 0 ELSE fs[i].size + reduceSize(fs, i + 1)

\* the reducer written (sum, file) => file.size: the last file's size
totalSizeOf_lastOnly(fs) == IF Len(fs) = 0 THEN 0 ELSE fs[Len(fs)].size

totalSizeOf(fs) == reduceSize(fs, 1)

----------------------------------------------------------------------------
(* Inputs *)

pad(n) == [i \in 1..n |-> 0]

Signatures ==
    UNION {{MAGIC_BYTES[mt][s] : s \in 1..Len(MAGIC_BYTES[mt])} :
              mt \in DOMAIN MAGIC_BYTES}

PNG_SIG == MAGIC_BYTES["image/png"][1]
JPEG_SIG == MAGIC_BYTES["image/jpeg"][1]
GIF_SIG == MAGIC_BYTES["image/gif"][2]
RIFF == MAGIC_BYTES["image/webp"][1]

\* what may stand at offsets 8.. of a RIFF container
Markers ==
    { WEBP,                   \* "WEBP"
      <<87, 65, 86, 69>>,     \* "WAVE"
      <<215, 69, 66, 80>>,    \* 0xD7 "EBP": "WEBP" with the top bit of W set
      <<87, 69, 66, 208>>,    \* "WEB" 0xD0: "WEBP" with the top bit of P set
      <<87, 69, 66, 81>>,     \* "WEBQ"
      <<87, 69, 66>> }        \* "WEB": one byte short

\* buffers handed to detectMimeType
Buffers ==
    {<<>>, <<0, 1, 2, 3>>}
    \cup {sig \o pad(n) : sig \in Signatures, n \in 0..MaxPayload}
    \cup {SubSeq(sig, 1, Len(sig) - 1) : sig \in Signatures}
    \cup {[sig EXCEPT ![Len(sig)] = (@ + 1) % 256] : sig \in Signatures}
    \cup {[sig EXCEPT ![1] = (@ + 1) % 256] : sig \in Signatures}
    \cup {RIFF \o pad(n) : n \in 0..7}
    \cup {RIFF \o pad(4) \o m \o pad(n) : m \in Markers, n \in 0..MaxPayload}
    \cup {sig \o pad(8 - Len(sig)) \o WEBP : sig \in Signatures}

\* buffers of the files handed to validateFile
FileBuffers ==
    { <<>>,
      <<0, 1, 2, 3>>,
      PNG_SIG \o pad(MaxPayload),
      JPEG_SIG,
      GIF_SIG,
      RIFF \o pad(4) \o WEBP,
      RIFF \o pad(4) \o <<87, 65, 86, 69>>,
      RIFF \o pad(4) \o <<215, 69, 66, 80>> }

FileSizes == {-1, 0, 1, 100, MAX_FILE_SIZE, MAX_FILE_SIZE + 1}

\* name and declared MIME type, both supplied by the client
Metas ==
    { [name |-> "a.png", type |-> "image/png"],
      [name |-> "b.txt", type |-> "text/plain"],
      [name |-> "c.webp", type |-> "image/webp"] }

File(name, type, size, bytes) ==
    [name |-> name, type |-> type, size |-> size, bytes |-> bytes]

FilePool ==
    {File(m.name, m.type, sz, b) : m \in Metas, sz \in FileSizes, b \in FileBuffers}

\* the files batches are made of
BatchPool ==
    { File("a.png", "image/png", MAX_FILE_SIZE, PNG_SIG \o pad(MaxPayload)),
      File("b.webp", "image/webp", 100, RIFF \o pad(4) \o WEBP),
      File("c.png", "image/png", 4, <<0, 1, 2, 3>>),
      File("d.jpg", "image/jpeg", 10 * 1024 * 1024, JPEG_SIG),
      File("e.gif", "image/gif", 11 * 1024 * 1024, GIF_SIG),
      File("f.png", "image/png", 0, PNG_SIG) }

Batches == UNION {[1..n -> BatchPool] : n \in 0..MaxFiles}

\* sizes handed to validateFileSize and validateTotalSize
SizeArgs ==
    {b + d : b \in {0, MAX_FILE_SIZE, MAX_TOTAL_SIZE}, d \in (0 - Slack)..Slack}
    \cup {100, 0 - MAX_FILE_SIZE, 2 * MAX_TOTAL_SIZE}

\* code units file names are made of: a Z 0 . - / space _ e-acute and a high
\* surrogate
NameChars == {97, 90, 48, 46, 45, 47, 32, 95, 233, 55357}

FileNames == UNION {[1..n -> NameChars] : n \in 0..MaxNameLen}

\* "uploads" and "a/b"
Folders == {<<117, 112, 108, 111, 97, 100, 115>>, <<97, 47, 98>>}

\* "42" and ""
EntityIds == {<<52, 50>>, <<>>}

\* values of Date.now()
Timestamps == {0, 9, 10, 1234567890}

----------------------------------------------------------------------------
(* Calls observed during one call, in order *)

Event(op, i) == [op |-> op, i |-> i]

None == [none |-> TRUE]

----------------------------------------------------------------------------
(* The state machine *)

Init ==
    /\ pc = "idle"
    /\ fn = "none"
    /\ files = <<>>
    /\ idx = 0
    /\ validatedFiles = <<>>
    /\ buffer = <<>>
    /\ result = Undefined
    /\ ret = Undefined
    /\ trace = <<>>
    /\ prev = None
    /\ arg = None
    /\ seen = None
    /\ other = None
    /\ step = "off"
    /\ script = "none"
    /\ attempts = 0
    /\ dbPassword = Undefined
    /\ events = <<>>
    /\ exitCode = None
    /\ envPassword = None
    /\ containerPassword = None
    /\ handler = "none"
    /\ at = "idle"
    /\ request = None
    /\ session = Undefined
    /\ response = Undefined
    /\ settled = None
    /\ apiCalls = <<>>

\* detectMimeType(b) is called and returns
DetectMimeTypeOf(b) ==
    /\ pc = "idle"
    /\ buffer' = b
    /\ ret' = detectMimeType(b)
    /\ fn' = "detectMimeType"
    /\ pc' = "done"
    /\ prev' = None
    /\ UNCHANGED <<files, idx, validatedFiles, result, trace>>
    /\ UNCHANGED <<arg, rest>>

\* a caller runs detectMimeType(b)
CallDetectMimeType ==
    pc = "idle" /\ \E b \in Buffers : DetectMimeTypeOf(b)

\* a caller runs validateFileSize(size)
CallValidateFileSize ==
    /\ pc = "idle"
    /\ \E size \in SizeArgs :
          /\ arg' = size
          /\ ret' = validateFileSize(size)
    /\ fn' = "validateFileSize"
    /\ pc' = "done"
    /\ prev' = None
    /\ UNCHANGED <<files, idx, validatedFiles, buffer, result, trace, rest>>

\* a caller runs validateTotalSize(totalSize)
CallValidateTotalSize ==
    /\ pc = "idle"
    /\ \E totalSize \in SizeArgs :
          /\ arg' = totalSize
          /\ ret' = validateTotalSize(totalSize)
    /\ fn' = "validateTotalSize"
    /\ pc' = "done"
    /\ prev' = None
    /\ UNCHANGED <<files, idx, validatedFiles, buffer, result, trace, rest>>

\* a caller runs getFileExtension(mimeType)
CallGetFileExtension ==
    /\ pc = "idle"
    /\ \E i \in 1..Len(ALLOWED_MIME_TYPES) :
          /\ arg' = ALLOWED_MIME_TYPES[i]
          /\ ret' = getFileExtension(ALLOWED_MIME_TYPES[i])
    /\ fn' = "getFileExtension"
    /\ pc' = "done"
    /\ prev' = None
    /\ UNCHANGED <<files, idx, validatedFiles, buffer, result, trace, rest>>

\* a caller runs generateStorageKey(folder, entityId, filename) at time now
CallGenerateStorageKey ==
    /\ pc = "idle"
    /\ \E folder \in Folders, entityId \in EntityIds,
          filename \in FileNames, now \in Timestamps :
          /\ arg' = [folder |-> folder, entityId |-> entityId,
                     filename |-> filename, now |-> now]
          /\ ret' = generateStorageKey(folder, entityId, filename, now)
    /\ fn' = "generateStorageKey"
    /\ pc' = "done"
    /\ prev' = None
    /\ UNCHANGED <<files, idx, validatedFiles, buffer, result, trace, rest>>

\* validateFile(f) is called
ValidateFileOf(f) ==
    /\ pc = "idle"
    /\ files' = <<f>>
    /\ fn' = "validateFile"
    /\ idx' = 1
    /\ pc' = "vf_size"
    /\ UNCHANGED <<validatedFiles, buffer, result, ret, trace, prev>>
    /\ UNCHANGED <<arg, rest>>

\* a caller runs validateFile(f)
CallValidateFile ==
    pc = "idle" /\ \E f \in FilePool : ValidateFileOf(f)

\* validateFiles(fs) is called
ValidateFilesOf(fs) ==
    /\ pc = "idle"
    /\ files' = fs
    /\ fn' = "validateFiles"
    /\ pc' = "vfs_empty"
    /\ prev' = None
    /\ UNCHANGED <<idx, validatedFiles, buffer, result, ret, trace>>
    /\ UNCHANGED <<arg, rest>>

\* a caller runs validateFiles(fs)
CallValidateFiles ==
    pc = "idle" /\ \E fs \in Batches : ValidateFilesOf(fs)

\* validateFiles without the early return for an empty batch
VFs_CheckEmpty_noEarlyReturn ==
    /\ pc = "vfs_empty"
    /\ pc' = "vfs_total"
    /\ UNCHANGED <<fn, files, idx, validatedFiles, buffer, result, ret, trace, prev>>
    /\ UNCHANGED <<arg, rest>>

\* validateFiles: if (files.length === 0) return { valid: true, validatedFiles: [] }
VFs_CheckEmpty ==
    /\ pc = "vfs_empty"
    /\ IF Len(files) = 0
       THEN /\ ret' = AcceptedBatch(<<>>)
            /\ pc' = "done"
       ELSE /\ pc' = "vfs_total"
            /\ UNCHANGED ret
    /\ UNCHANGED <<fn, files, idx, validatedFiles, buffer, result, trace, prev>>
    /\ UNCHANGED <<arg, rest>>

\* validateFiles: the total size check
VFs_CheckTotal ==
    /\ pc = "vfs_total"
    /\ trace' = Append(trace, Event("validateTotalSize", 0))
    /\ IF ~validateTotalSize(totalSizeOf(files))
       THEN /\ ret' = Rejected(TotalSizeError)
            /\ pc' = "done"
            /\ UNCHANGED <<idx, validatedFiles>>
       ELSE /\ validatedFiles' = <<>>
            /\ idx' = 1
            /\ pc' = "vfs_loop"
            /\ UNCHANGED ret
    /\ UNCHANGED <<fn, files, buffer, result, prev>>
    /\ UNCHANGED <<arg, rest>>

\* validateFiles: the head of the for-of loop; calls validateFile(file), or
\* returns { valid: true, validatedFiles } after the last file
VFs_Loop ==
    /\ pc = "vfs_loop"
    /\ IF idx > Len(files)
       THEN /\ ret' = AcceptedBatch(validatedFiles)
            /\ pc' = "done"
       ELSE /\ pc' = "vf_size"
            /\ UNCHANGED ret
    /\ UNCHANGED <<fn, files, idx, validatedFiles, buffer, result, trace, prev>>
    /\ UNCHANGED <<arg, rest>>

\* validateFile with the size check after the read and the detection
VF_CheckSize_afterRead ==
    /\ pc = "vf_size"
    /\ trace' = trace \o <<Event("arrayBuffer", idx),
                           Event("detectMimeType", idx),
                           Event("validateFileSize", idx)>>
    /\ buffer' = files[idx].bytes
    /\ result' = IF ~validateFileSize(files[idx].size)
                 THEN Rejected(SizeError(files[idx].name))
                 ELSE IF detectMimeType(files[idx].bytes) = Null
                      THEN Rejected(NotImageError(files[idx].name))
                      ELSE Accepted(detectMimeType(files[idx].bytes))
    /\ pc' = "vf_return"
    /\ UNCHANGED <<fn, files, idx, validatedFiles, ret, prev>>
    /\ UNCHANGED <<arg, rest>>

\* validateFile: the size check
VF_CheckSize ==
    /\ pc = "vf_size"
    /\ trace' = Append(trace, Event("validateFileSize", idx))
    /\ IF ~validateFileSize(files[idx].size)
       THEN /\ result' = Rejected(SizeError(files[idx].name))
            /\ pc' = "vf_return"
       ELSE /\ pc' = "vf_read"
            /\ UNCHANGED result
    /\ UNCHANGED <<fn, files, idx, validatedFiles, buffer, ret, prev>>
    /\ UNCHANGED <<arg, rest>>

\* validateFile keeping the buffer it read in a module-level cache and taking
\* it from there in the next call
VF_Read_cachedBuffer ==
    /\ pc = "vf_read"
    /\ trace' = Append(trace, Event("arrayBuffer", idx))
    /\ buffer' = IF prev # None THEN prev.file.bytes ELSE files[idx].bytes
    /\ pc' = "vf_detect"
    /\ UNCHANGED <<fn, files, idx, validatedFiles, result, ret, prev>>
    /\ UNCHANGED <<arg, rest>>

\* validateFile calling file.arrayBuffer() once for the length and once more
\* for the bytes
VF_Read_twice ==
    /\ pc = "vf_read"
    /\ trace' = trace \o <<Event("arrayBuffer", idx), Event("arrayBuffer", idx)>>
    /\ buffer' = files[idx].bytes
    /\ pc' = "vf_detect"
    /\ UNCHANGED <<fn, files, idx, validatedFiles, result, ret, prev>>
    /\ UNCHANGED <<arg, rest>>

\* validateFile: buffer = Buffer.from(await file.arrayBuffer())
VF_Read ==
    /\ pc = "vf_read"
    /\ trace' = Append(trace, Event("arrayBuffer", idx))
    /\ buffer' = files[idx].bytes
    /\ pc' = "vf_detect"
    /\ UNCHANGED <<fn, files, idx, validatedFiles, result, ret, prev>>
    /\ UNCHANGED <<arg, rest>>

\* validateFile taking the declared MIME type when it is an allowed one
VF_Detect_trustsDeclaredType ==
    /\ pc = "vf_detect"
    /\ trace' = Append(trace, Event("detectMimeType", idx))
    /\ LET detectedMimeType ==
               IF isAllowedMimeType(files[idx].type)
               THEN files[idx].type
               ELSE detectMimeType(buffer)
       IN  result' = IF detectedMimeType = Null
                     THEN Rejected(NotImageError(files[idx].name))
                     ELSE Accepted(detectedMimeType)
    /\ pc' = "vf_return"
    /\ UNCHANGED <<fn, files, idx, validatedFiles, buffer, ret, prev>>
    /\ UNCHANGED <<arg, rest>>

\* validateFile falling back on the declared MIME type when no signature matches
VF_Detect_guessesDeclaredType ==
    /\ pc = "vf_detect"
    /\ trace' = Append(trace, Event("detectMimeType", idx))
    /\ LET detectedMimeType ==
               IF detectMimeType(buffer) = Null /\ isAllowedMimeType(files[idx].type)
               THEN files[idx].type
               ELSE detectMimeType(buffer)
       IN  result' = IF detectedMimeType = Null
                     THEN Rejected(NotImageError(files[idx].name))
                     ELSE Accepted(detectedMimeType)
    /\ pc' = "vf_return"
    /\ UNCHANGED <<fn, files, idx, validatedFiles, buffer, ret, prev>>
    /\ UNCHANGED <<arg, rest>>

\* validateFile: detection and the result it leads to
VF_Detect ==
    /\ pc = "vf_detect"
    /\ trace' = Append(trace, Event("detectMimeType", idx))
    /\ LET detectedMimeType == detectMimeType(buffer)
       IN  result' = IF detectedMimeType = Null
                     THEN Rejected(NotImageError(files[idx].name))
                     ELSE Accepted(detectedMimeType)
    /\ pc' = "vf_return"
    /\ UNCHANGED <<fn, files, idx, validatedFiles, buffer, ret, prev>>
    /\ UNCHANGED <<arg, rest>>

\* validateFile returns: to the caller, or into validateFiles' loop body
VF_Return ==
    /\ pc = "vf_return"
    /\ IF fn = "validateFile"
       THEN /\ ret' = result
            /\ pc' = "done"
       ELSE /\ pc' = "vfs_result"
            /\ UNCHANGED ret
    /\ UNCHANGED <<fn, files, idx, validatedFiles, buffer, result, trace, prev>>
    /\ UNCHANGED <<arg, rest>>

\* validateFiles leaving a rejected file out and going on with the next
VFs_Result_skipsRejected ==
    /\ pc = "vfs_result"
    /\ validatedFiles' =
          IF ~result.valid
          THEN validatedFiles
          ELSE Append(validatedFiles,
                      [file |-> files[idx], mimeType |-> result.mimeType])
    /\ idx' = idx + 1
    /\ pc' = "vfs_loop"
    /\ UNCHANGED <<fn, files, buffer, result, ret, trace, prev>>
    /\ UNCHANGED <<arg, rest>>

\* validateFiles with the loop written while (files.length) { files.shift() ... }:
\* every accepted file is taken out of the caller's array
VFs_Result_shiftsInput ==
    /\ pc = "vfs_result"
    /\ IF ~result.valid
       THEN /\ ret' = result
            /\ pc' = "done"
            /\ UNCHANGED <<files, validatedFiles>>
       ELSE /\ validatedFiles' =
                   Append(validatedFiles,
                          [file |-> files[idx], mimeType |-> result.mimeType])
            /\ files' = Tail(files)
            /\ pc' = "vfs_loop"
            /\ UNCHANGED ret
    /\ UNCHANGED <<fn, idx, buffer, result, trace, prev>>
    /\ UNCHANGED <<arg, rest>>

\* validateFiles with unshift in place of push
VFs_Result_unshifts ==
    /\ pc = "vfs_result"
    /\ IF ~result.valid
       THEN /\ ret' = result
            /\ pc' = "done"
            /\ UNCHANGED <<idx, validatedFiles>>
       ELSE /\ validatedFiles' =
                   <<[file |-> files[idx], mimeType |-> result.mimeType]>>
                       \o validatedFiles
            /\ idx' = idx + 1
            /\ pc' = "vfs_loop"
            /\ UNCHANGED ret
    /\ UNCHANGED <<fn, files, buffer, result, trace, prev>>
    /\ UNCHANGED <<arg, rest>>

\* validateFiles: if (!result.valid) return result; else push and go on
VFs_Result ==
    /\ pc = "vfs_result"
    /\ IF ~result.valid
       THEN /\ ret' = result
            /\ pc' = "done"
            /\ UNCHANGED <<idx, validatedFiles>>
       ELSE /\ validatedFiles' =
                   Append(validatedFiles,
                          [file |-> files[idx], mimeType |-> result.mimeType])
            /\ idx' = idx + 1
            /\ pc' = "vfs_loop"
            /\ UNCHANGED ret
    /\ UNCHANGED <<fn, files, buffer, result, trace, prev>>
    /\ UNCHANGED <<arg, rest>>

\* what a call was given
Input ==
    [fn |-> fn, files |-> files, arg |-> arg,
     buffer |-> IF fn = "detectMimeType" THEN buffer ELSE <<>>]

\* the caller takes the returned value; the call's locals are gone
Returning(remembered) ==
    /\ pc = "done"
    /\ other = None
    /\ prev' = IF fn = "validateFile"
               THEN [file |-> files[1], result |-> ret]
               ELSE None
    /\ pc' = "idle"
    /\ fn' = "none"
    /\ files' = <<>>
    /\ idx' = 0
    /\ validatedFiles' = <<>>
    /\ buffer' = <<>>
    /\ result' = Undefined
    /\ ret' = Undefined
    /\ trace' = <<>>
    /\ arg' = None
    /\ seen' = remembered
    /\ UNCHANGED <<other, setup, route>>

Return == Returning(seen)

\* the same, and the observer remembers this call from now on
ReturnRemembered == Returning([input |-> Input, ret |-> ret])

Next ==
    \/ CallDetectMimeType
    \/ CallValidateFileSize
    \/ CallValidateTotalSize
    \/ CallGetFileExtension
    \/ CallGenerateStorageKey
    \/ CallValidateFile
    \/ CallValidateFiles
    \/ VFs_CheckEmpty
    \/ VFs_CheckTotal
    \/ VFs_Loop
    \/ VF_CheckSize
    \/ VF_Read
    \/ VF_Detect
    \/ VF_Return
    \/ VFs_Result
    \/ Return

Spec == Init /\ [][Next]_vars

----------------------------------------------------------------------------
(* Sequences of calls of which one is remembered *)

SmallPool ==
    { File("a.png", "image/png", 100, PNG_SIG \o pad(MaxPayload)),
      File("c.png", "image/png", 4, <<0, 1, 2, 3>>),
      File("e.gif", "image/gif", 11 * 1024 * 1024, GIF_SIG) }

SmallBatches == UNION {[1..n -> SmallPool] : n \in 0..MaxSmallBatch}

SmallBuffers == {<<>>, PNG_SIG, RIFF \o pad(4) \o WEBP, RIFF \o pad(4)}

SeqNext ==
    \/ \E b \in SmallBuffers : DetectMimeTypeOf(b)
    \/ \E f \in SmallPool : ValidateFileOf(f)
    \/ \E fs \in SmallBatches : ValidateFilesOf(fs)
    \/ VFs_CheckEmpty
    \/ VFs_CheckTotal
    \/ VFs_Loop
    \/ VF_CheckSize
    \/ VF_Read
    \/ VF_Detect
    \/ VF_Return
    \/ VFs_Result
    \/ Return
    \/ ReturnRemembered

SeqSpec == Init /\ [][SeqNext]_vars

----------------------------------------------------------------------------
(* Two validateFiles calls under way at once.  JavaScript runs one call at a  *)
(* time and hands control over at an await: at await file.arrayBuffer() in    *)
(* validateFile and at await validateFile(file) in validateFiles.             *)

\* the call in progress, as it is kept while it is suspended
Context ==
    [pc |-> pc, fn |-> fn, files |-> files, idx |-> idx,
     validatedFiles |-> validatedFiles, buffer |-> buffer, result |-> result,
     ret |-> ret, trace |-> trace]

\* a validateFiles(fs) call that has not run its first statement yet
NewCall(fs) ==
    [pc |-> "vfs_empty", fn |-> "validateFiles", files |-> fs, idx |-> 0,
     validatedFiles |-> <<>>, buffer |-> <<>>, result |-> Undefined,
     ret |-> Undefined, trace |-> <<>>]

\* the control points at which a call waits for a promise, or has returned
AwaitPoints == {"vf_read", "vfs_result", "done"}

\* a caller runs validateFiles on the remembered batch and on another batch
\* without awaiting the first call: one of them starts, the other is pending
CallTwoValidateFiles ==
    /\ pc = "idle"
    /\ seen # None
    /\ seen.input.fn = "validateFiles"
    /\ \E fs \in SmallBatches, rememberedFirst \in BOOLEAN :
          /\ files' = IF rememberedFirst THEN seen.input.files ELSE fs
          /\ other' = NewCall(IF rememberedFirst THEN fs ELSE seen.input.files)
    /\ fn' = "validateFiles"
    /\ pc' = "vfs_empty"
    /\ prev' = None
    /\ UNCHANGED <<idx, validatedFiles, buffer, result, ret, trace, arg, seen, setup, route>>

\* the two calls sharing one module-level validatedFiles array
Switch_sharedValidatedFiles ==
    /\ other # None
    /\ other.pc # "done"
    /\ pc \in AwaitPoints
    /\ other' = Context
    /\ pc' = other.pc
    /\ fn' = other.fn
    /\ files' = other.files
    /\ idx' = other.idx
    /\ buffer' = other.buffer
    /\ result' = other.result
    /\ ret' = other.ret
    /\ trace' = other.trace
    /\ UNCHANGED <<validatedFiles, prev, arg, seen, setup, route>>

\* the call in progress waits at an await or has returned, and the event loop
\* goes on with the other call
Switch ==
    /\ other # None
    /\ other.pc # "done"
    /\ pc \in AwaitPoints
    /\ other' = Context
    /\ pc' = other.pc
    /\ fn' = other.fn
    /\ files' = other.files
    /\ idx' = other.idx
    /\ validatedFiles' = other.validatedFiles
    /\ buffer' = other.buffer
    /\ result' = other.result
    /\ ret' = other.ret
    /\ trace' = other.trace
    /\ UNCHANGED <<prev, arg, seen, setup, route>>

\* both calls have returned and the caller has taken both values
ReturnTwo ==
    /\ pc = "done"
    /\ other # None
    /\ other.pc = "done"
    /\ other' = None
    /\ prev' = None
    /\ pc' = "idle"
    /\ fn' = "none"
    /\ files' = <<>>
    /\ idx' = 0
    /\ validatedFiles' = <<>>
    /\ buffer' = <<>>
    /\ result' = Undefined
    /\ ret' = Undefined
    /\ trace' = <<>>
    /\ UNCHANGED <<arg, seen, setup, route>>

ConcNext ==
    \/ pc = "idle" /\ seen = None /\ \E fs \in SmallBatches : ValidateFilesOf(fs)
    \/ ReturnRemembered
    \/ CallTwoValidateFiles
    \/ Switch
    \/ VFs_CheckEmpty
    \/ VFs_CheckTotal
    \/ VFs_Loop
    \/ VF_CheckSize
    \/ VF_Read
    \/ VF_Detect
    \/ VF_Return
    \/ VFs_Result
    \/ ReturnTwo

ConcSpec == Init /\ [][ConcNext]_vars

----------------------------------------------------------------------------
(* The setup script: main of scripts/setup.js and of its later version,      *)
(* which installs the dependencies first, reuses the credentials of an       *)
(* existing .env and asks for another port when 5432 is taken.  run(cmd)     *)
(* throws when the command fails; what main throws reaches main().catch,     *)
(* which exits with status 1.                                                *)

\* the two versions of the script
Scripts == {"setup.js", "part_007"}

\* passwords crypto.randomBytes(16).toString("hex") may produce
MaxPasswords == 2
Passwords == {[hex |-> n] : n \in 1..MaxPasswords}

\* while (attempts < 30)
MaxAttempts == 30

\* a command handed to execSync and whether it succeeded; a line printed
Ran(cmd, ok) == [op |-> "exec", what |-> cmd, ok |-> ok]
Printed(line) == [op |-> "print", what |-> line, ok |-> TRUE]

\* answers to "Enter alternative port", as sequences of characters
AltPorts == {<<>>, <<"a">>, <<"5", "4", "3", "3">>}
Digits == {"0", "1", "2", "3", "4", "5", "6", "7", "8", "9"}

\* !altPort || !/^\d+$/.test(altPort)
invalidPort(altPort) ==
    altPort = <<>> \/ ~(\A i \in 1..Len(altPort) : altPort[i] \in Digits)

\* the process ends with this status
Exit(code) ==
    /\ step' = "exited"
    /\ exitCode' = code

\* node runs the script in the project directory
Setup_Start ==
    /\ step \in {"off", "exited"}
    /\ \E s \in Scripts :
          /\ script' = s
          /\ step' = IF s = "part_007" THEN "install" ELSE "env"
    /\ attempts' = 0
    /\ dbPassword' = Undefined
    /\ events' = <<>>
    /\ exitCode' = None
    /\ UNCHANGED <<envPassword, containerPassword, upload>>

\* run("pnpm install")
Setup_Install ==
    /\ step = "install"
    /\ \E ok \in BOOLEAN :
          /\ events' = Append(events, Ran("pnpm install", ok))
          /\ IF ok THEN step' = "env" /\ UNCHANGED exitCode ELSE Exit(1)
    /\ UNCHANGED <<script, attempts, dbPassword, envPassword, containerPassword>>
    /\ UNCHANGED upload

\* the password: a fresh one, or in the later version the one an existing
\* .env holds; .env is written with it
Setup_WriteEnv ==
    /\ step = "env"
    /\ \E fresh \in Passwords :
          LET existing == IF script = "part_007" /\ envPassword # None
                          THEN envPassword
                          ELSE Undefined
              password == IF existing = Undefined THEN fresh ELSE existing
          IN  /\ dbPassword' = password
              /\ envPassword' = password
    /\ step' = "git"
    /\ UNCHANGED <<script, attempts, events, exitCode, containerPassword>>
    /\ UNCHANGED upload

\* run("git init")
Setup_GitInit ==
    /\ step = "git"
    /\ \E ok \in BOOLEAN :
          /\ events' = Append(events, Ran("git init", ok))
          /\ IF ok THEN step' = "docker" /\ UNCHANGED exitCode ELSE Exit(1)
    /\ UNCHANGED <<script, attempts, dbPassword, envPassword, containerPassword>>
    /\ UNCHANGED upload

\* docker info fails: main prints how to go on and returns
Setup_DockerInfo ==
    /\ step = "docker"
    /\ \E running \in BOOLEAN :
          /\ events' = Append(events, Ran("docker info", running))
          /\ IF running THEN step' = "container" /\ UNCHANGED exitCode ELSE Exit(0)
    /\ UNCHANGED <<script, attempts, dbPassword, envPassword, containerPassword>>
    /\ UNCHANGED upload

\* docker run -d --name ... -e POSTGRES_PASSWORD=${dbPassword} ...: the
\* container is created and started, or created and not started (the port is
\* taken), or not created
DockerRun ==
    \E outcome \in {"started", "created", "failed"} :
        /\ events' = Append(events, Ran("docker run", outcome = "started"))
        /\ containerPassword' = IF outcome = "failed"
                                THEN containerPassword
                                ELSE dbPassword
        /\ IF outcome = "started"
           THEN step' = "wait" /\ UNCHANGED exitCode
           ELSE Exit(1)

\* setup.js: try { docker inspect; run(docker start) } catch { run(docker run) }
\* a docker start that fails is caught too, and docker run finds the name taken
Setup_Container_try ==
    /\ step = "container"
    /\ script = "setup.js"
    /\ IF containerPassword # None
       THEN /\ \E started \in BOOLEAN :
                  IF started
                  THEN /\ events' = Append(events, Ran("docker start", TRUE))
                       /\ step' = "wait"
                       /\ UNCHANGED exitCode
                  ELSE /\ events' = events \o <<Ran("docker start", FALSE),
                                               Ran("docker run", FALSE)>>
                       /\ Exit(1)
            /\ UNCHANGED containerPassword
       ELSE DockerRun
    /\ UNCHANGED <<script, attempts, dbPassword, envPassword>>
    /\ UNCHANGED upload

\* the later version: containerExists ? run(docker start) : the port question
\* and run(docker run)
Setup_Container_exists ==
    /\ step = "container"
    /\ script = "part_007"
    /\ IF containerPassword # None
       THEN /\ \E started \in BOOLEAN :
                  /\ events' = Append(events, Ran("docker start", started))
                  /\ IF started THEN step' = "wait" /\ UNCHANGED exitCode ELSE Exit(1)
            /\ UNCHANGED containerPassword
       ELSE \E inUse \in BOOLEAN, altPort \in AltPorts, altInUse \in BOOLEAN :
               IF inUse /\ invalidPort(altPort)
               THEN /\ events' = Append(events, Printed("Invalid port number."))
                    /\ Exit(1)
                    /\ UNCHANGED containerPassword
               ELSE IF inUse /\ altInUse
               THEN /\ events' = Append(events, Printed("Port is also in use."))
                    /\ Exit(1)
                    /\ UNCHANGED containerPassword
               ELSE DockerRun
    /\ UNCHANGED <<script, attempts, dbPassword, envPassword>>
    /\ UNCHANGED upload

\* one turn of while (attempts < 30): pg_isready succeeds and the loop is
\* left, or attempts++ and the condition is looked at again
Setup_Probe ==
    /\ step = "wait"
    /\ attempts < MaxAttempts
    /\ \E ready \in BOOLEAN :
          /\ events' = Append(events, Ran("pg_isready", ready))
          /\ IF ready
             THEN /\ step' = "waited"
                  /\ UNCHANGED attempts
             ELSE /\ attempts' = attempts + 1
                  /\ step' = IF attempts + 1 < MaxAttempts THEN "wait" ELSE "waited"
    /\ UNCHANGED <<script, dbPassword, exitCode, envPassword, containerPassword>>
    /\ UNCHANGED upload

\* the check after the loop left out
Setup_CheckReady_noExit ==
    /\ step = "waited"
    /\ events' = Append(events, Printed("PostgreSQL is ready"))
    /\ step' = "migrate"
    /\ UNCHANGED <<script, attempts, dbPassword, exitCode, envPassword,
                   containerPassword>>
    /\ UNCHANGED upload

\* if (attempts >= 30) { ...; process.exit(1) }
Setup_CheckReady ==
    /\ step = "waited"
    /\ IF attempts >= MaxAttempts
       THEN /\ events' = Append(events, Printed("PostgreSQL failed to start"))
            /\ Exit(1)
       ELSE /\ events' = Append(events, Printed("PostgreSQL is ready"))
            /\ step' = "migrate"
            /\ UNCHANGED exitCode
    /\ UNCHANGED <<script, attempts, dbPassword, envPassword, containerPassword>>
    /\ UNCHANGED upload

\* run("pnpm db:generate"); run("pnpm db:migrate"); "Setup complete!"
Setup_Migrate ==
    /\ step = "migrate"
    /\ \E generated \in BOOLEAN, migrated \in BOOLEAN :
          /\ events' = events \o
                IF ~generated
                THEN <<Ran("pnpm db:generate", FALSE)>>
                ELSE IF ~migrated
                THEN <<Ran("pnpm db:generate", TRUE), Ran("pnpm db:migrate", FALSE)>>
                ELSE <<Ran("pnpm db:generate", TRUE), Ran("pnpm db:migrate", TRUE),
                       Printed("Setup complete!")>>
          /\ Exit(IF generated /\ migrated THEN 0 ELSE 1)
    /\ UNCHANGED <<script, attempts, dbPassword, envPassword, containerPassword>>
    /\ UNCHANGED upload

SetupNext ==
    \/ Setup_Start
    \/ Setup_Install
    \/ Setup_WriteEnv
    \/ Setup_GitInit
    \/ Setup_DockerInfo
    \/ Setup_Container_try
    \/ Setup_Container_exists
    \/ Setup_Probe
    \/ Setup_CheckReady
    \/ Setup_Migrate

SetupSpec == Init /\ [][SetupNext]_vars

----------------------------------------------------------------------------
(* The spinup-db script: it takes the credentials from .env, starts or       *)
(* creates the container and waits for PostgreSQL.  It is a top-level        *)
(* script: what it throws ends the process with status 1.  The sleep 1 of    *)
(* its wait loop is taken to complete.                                       *)

\* node runs the script; without a .env it exits at once, otherwise it takes
\* user, password, port and database name from the DATABASE_URL
Spinup_Start ==
    /\ step \in {"off", "exited"}
    /\ script' = "spinup-db"
    /\ attempts' = 0
    /\ IF envPassword = None
       THEN /\ events' = <<Printed(".env file not found")>>
            /\ dbPassword' = Undefined
            /\ Exit(1)
       ELSE /\ events' = <<>>
            /\ dbPassword' = envPassword
            /\ step' = "spinup_docker"
            /\ exitCode' = None
    /\ UNCHANGED <<envPassword, containerPassword, upload>>

\* docker info fails: process.exit(1)
Spinup_DockerInfo ==
    /\ step = "spinup_docker"
    /\ \E running \in BOOLEAN :
          /\ events' = Append(events, Ran("docker info", running))
          /\ IF running
             THEN step' = "spinup_container" /\ UNCHANGED exitCode
             ELSE Exit(1)
    /\ UNCHANGED <<script, attempts, dbPassword, envPassword, containerPassword>>
    /\ UNCHANGED upload

\* try { docker inspect; docker start } catch { docker run ... }
Spinup_Container ==
    /\ step = "spinup_container"
    /\ IF containerPassword # None
       THEN /\ \E started \in BOOLEAN :
                  IF started
                  THEN /\ events' = Append(events, Ran("docker start", TRUE))
                       /\ step' = "spinup_wait"
                       /\ UNCHANGED exitCode
                  ELSE /\ events' = events \o <<Ran("docker start", FALSE),
                                               Ran("docker run", FALSE)>>
                       /\ Exit(1)
            /\ UNCHANGED containerPassword
       ELSE \E outcome \in {"started", "created", "failed"} :
               /\ events' = Append(events, Ran("docker run", outcome = "started"))
               /\ containerPassword' = IF outcome = "failed"
                                       THEN containerPassword
                                       ELSE dbPassword
               /\ IF outcome = "started"
                  THEN step' = "spinup_wait" /\ UNCHANGED exitCode
                  ELSE Exit(1)
    /\ UNCHANGED <<script, attempts, dbPassword, envPassword>>
    /\ UNCHANGED upload

\* the wait loop with the attempts++ forgotten
Spinup_Probe_noIncrement ==
    /\ step = "spinup_wait"
    /\ attempts < MaxAttempts
    /\ \E ready \in BOOLEAN :
          IF ready
          THEN /\ events' = events \o <<Ran("pg_isready", TRUE),
                                       Printed("PostgreSQL is ready")>>
               /\ Exit(0)
          ELSE /\ events' = events \o <<Ran("pg_isready", FALSE),
                                       Ran("sleep 1", TRUE)>>
               /\ UNCHANGED <<step, exitCode>>
    /\ UNCHANGED <<script, attempts, dbPassword, envPassword, containerPassword>>
    /\ UNCHANGED upload

\* one turn of while (attempts < 30): pg_isready succeeds and the script
\* exits with 0, or attempts++, sleep 1 and the condition again
Spinup_Probe ==
    /\ step = "spinup_wait"
    /\ attempts < MaxAttempts
    /\ \E ready \in BOOLEAN :
          IF ready
          THEN /\ events' = events \o <<Ran("pg_isready", TRUE),
                                       Printed("PostgreSQL is ready")>>
               /\ Exit(0)
               /\ UNCHANGED attempts
          ELSE /\ events' = events \o <<Ran("pg_isready", FALSE),
                                       Ran("sleep 1", TRUE)>>
               /\ attempts' = attempts + 1
               /\ step' = IF attempts + 1 < MaxAttempts
                          THEN "spinup_wait"
                          ELSE "spinup_failed"
               /\ UNCHANGED exitCode
    /\ UNCHANGED <<script, dbPassword, envPassword, containerPassword>>
    /\ UNCHANGED upload

\* after the loop: "PostgreSQL failed to start", process.exit(1)
Spinup_GiveUp ==
    /\ step = "spinup_failed"
    /\ events' = Append(events, Printed("PostgreSQL failed to start"))
    /\ Exit(1)
    /\ UNCHANGED <<script, attempts, dbPassword, envPassword, containerPassword>>
    /\ UNCHANGED upload

SpinupNext ==
    \/ Spinup_Start
    \/ Spinup_DockerInfo
    \/ Spinup_Container
    \/ Spinup_Probe
    \/ Spinup_GiveUp

\* setup and spinup-db runs in one project directory, one after the other
ScriptsNext == SetupNext \/ SpinupNext

ScriptsSpec == Init /\ [][ScriptsNext]_vars

\* a script that is running goes on running: node executes the next statement
\* of the wait loop and of what follows it
ScriptsFairSpec ==
    /\ ScriptsSpec
    /\ WF_vars(Setup_Probe)
    /\ WF_vars(Setup_CheckReady)
    /\ WF_vars(Spinup_Probe)
    /\ WF_vars(Spinup_GiveUp)

----------------------------------------------------------------------------
(* Session helpers of auth.server.ts and the loaders and actions of the      *)
(* login and register routes.  A form field is a string, given by its        *)
(* characters, or null when the form does not have it.                       *)

JsNull == [null |-> TRUE]

Str(chars) == [type |-> "string", chars |-> chars]

FormNull == [type |-> "null", chars |-> <<>>]

\* n times the character c
Repeat(c, n) == [i \in 1..n |-> c]

\* what a handler did: return value or throw value
Returns(value) == [how |-> "returned", value |-> value]
Throws(value) == [how |-> "threw", value |-> value]

\* redirect(url) and redirect(url, { headers }): a 302 response
redirect(url, headers) == [status |-> 302, location |-> url, headers |-> headers]

NoHeaders == "(none)"

\* returnTo ?? "/"
orRoot(returnTo) == IF returnTo = Null THEN "/" ELSE returnTo

\* what auth.api rejects with when it fails
ApiError == [error |-> "APIError"]

\* auth.api.getSession({ headers }): the session the cookie stands for, or null
sessionOf(headers) ==
    IF headers = "cookie: valid" THEN [user |-> "u1"] ELSE JsNull

\* requireSession with the check left out: null is handed to the caller
requireSession_returnsNull(s) == Returns(s)

\* requireSession after const session = await getSession(request)
requireSession(s) ==
    IF s = JsNull THEN Throws(redirect("/login", NoHeaders)) ELSE Returns(s)

\* requireNoSession after const session = await getSession(request)
requireNoSession(s) ==
    IF s # JsNull THEN Throws(redirect("/", NoHeaders)) ELSE Returns(Undefined)

\* the loader with the session check left out
loader_noSessionCheck(s, returnTo) == Returns([returnTo |-> returnTo])

\* the loader of login.tsx and of register.tsx after getSession
loader(s, returnTo) ==
    IF s # JsNull
    THEN Throws(redirect(orRoot(returnTo), NoHeaders))
    ELSE Returns([returnTo |-> returnTo])

----------------------------------------------------------------------------
(* The Zod schemas.  safeParse gives the issues in the order of the schema's *)
(* keys; no issue means success.                                            *)

Issue(path, message) == [path |-> path, message |-> message]

Letters == {"a", "b", "p", "x"}

\* z.string().email(): one "@" after a non-empty local part, then labels of
\* letters, a "." and at least two letters
isEmail(chars) ==
    \E i \in 2..Len(chars) :
        /\ chars[i] = "@"
        /\ \A k \in 1..(i - 1) : chars[k] \in Letters
        /\ \E j \in (i + 2)..Len(chars) :
              /\ chars[j] = "."
              /\ Len(chars) - j >= 2
              /\ \A k \in (i + 1)..Len(chars) : k # j => chars[k] \in Letters

\* z.string()
stringIssues(v, path) ==
    IF v.type # "string"
    THEN <<Issue(path, "Expected string, received null")>>
    ELSE <<>>

\* z.string().min(n, message)
minIssues(v, path, n, message) ==
    IF v.type # "string" THEN stringIssues(v, path)
    ELSE IF Len(v.chars) < n THEN <<Issue(path, message)>>
    ELSE <<>>

\* z.string().email(message)
emailIssues(v, path, message) ==
    IF v.type # "string" THEN stringIssues(v, path)
    ELSE IF ~isEmail(v.chars) THEN <<Issue(path, message)>>
    ELSE <<>>

\* loginSchema.safeParse(data).error.issues
loginSchema(data) ==
    emailIssues(data.email, "email", "Please enter a valid email")
    \o minIssues(data.password, "password", 1, "Password is required")

\* registerSchema.safeParse(data).error.issues: the refinement runs when every
\* field is a string
registerSchema(data) ==
    LET fields ==
            minIssues(data.name, "name", 2, "Name must be at least 2 characters")
            \o emailIssues(data.email, "email", "Please enter a valid email")
            \o minIssues(data.password, "password", 8,
                         "Password must be at least 8 characters")
            \o stringIssues(data.confirmPassword, "confirmPassword")
        aborted == \E f \in {"name", "email", "password", "confirmPassword"} :
                       data[f].type # "string"
    IN  IF ~aborted /\ data.password # data.confirmPassword
        THEN Append(fields, Issue("confirmPassword", "Passwords don't match"))
        ELSE fields

\* the fieldErrors the register action builds: the last message per path
fieldErrors(issues) ==
    [p \in {issues[i].path : i \in 1..Len(issues)} |->
        LET last == CHOOSE i \in 1..Len(issues) :
                        /\ issues[i].path = p
                        /\ \A j \in (i + 1)..Len(issues) : issues[j].path # p
        IN  issues[last].message]

----------------------------------------------------------------------------
(* Requests and the handlers' steps *)

SessionHandlers ==
    {"requireSession", "requireNoSession", "login.loader", "register.loader"}

ActionHandlers == {"login.action", "register.action"}

\* the Cookie header of a request
Cookies == {"cookie: none", "cookie: valid", "cookie: stale"}

\* the returnTo query parameter of a loader's request, the returnTo form field
\* of an action's; Null when it is not there
ReturnTos == {Null, "", "/dashboard"}

\* the form of a GET request
NoForm ==
    [name |-> FormNull, email |-> FormNull, password |-> FormNull,
     confirmPassword |-> FormNull]

Forms ==
    [name : {Str(<<"a">>), Str(<<"a", "b">>)},
     email : {FormNull, Str(<<"a">>), Str(<<"a", "@", "b", ".", "p", "p">>)},
     password : {Str(<<>>), Str(Repeat("p", 7)), Str(Repeat("p", 8))},
     confirmPassword : {Str(Repeat("p", 8)), Str(<<"x">>)}]

\* what auth.api.signInEmail / signUpEmail answers with asResponse: true
ApiResponses ==
    {[ok |-> TRUE, headers |-> "set-cookie: token=1"],
     [ok |-> TRUE, headers |-> "set-cookie: token=2"],
     [ok |-> FALSE, headers |-> "content-type: application/json"]}

ApiCall(api, answer) == [api |-> api, answer |-> answer]

\* the framework or a caller runs a handler on a request
CallHandler ==
    /\ at \in {"idle", "settled"}
    /\ \E h \in SessionHandlers \cup ActionHandlers,
          cookie \in Cookies, returnTo \in ReturnTos :
          /\ handler' = h
          /\ at' = IF h \in ActionHandlers THEN "parse" ELSE "getSession"
          /\ IF h \in ActionHandlers
             THEN \E form \in Forms :
                     request' = [headers |-> cookie, returnTo |-> returnTo,
                                 form |-> form]
             ELSE request' = [headers |-> cookie, returnTo |-> returnTo,
                              form |-> NoForm]
    /\ session' = Undefined
    /\ response' = Undefined
    /\ settled' = None
    /\ apiCalls' = <<>>
    /\ UNCHANGED beside

\* getSession: await auth.api.getSession({ headers: request.headers })
GetSession ==
    /\ at = "getSession"
    /\ \E rejects \in BOOLEAN :
          IF rejects
          THEN /\ apiCalls' = Append(apiCalls, ApiCall("getSession", "rejected"))
               /\ settled' = Throws(ApiError)
               /\ at' = "settled"
               /\ UNCHANGED session
          ELSE /\ apiCalls' = Append(apiCalls, ApiCall("getSession", "answered"))
               /\ session' = sessionOf(request.headers)
               /\ at' = "check"
               /\ UNCHANGED settled
    /\ UNCHANGED <<handler, request, response>>
    /\ UNCHANGED beside

\* what follows await getSession(request) in the helper or loader
CheckSession ==
    /\ at = "check"
    /\ settled' = CASE handler = "requireSession" -> requireSession(session)
                    [] handler = "requireNoSession" -> requireNoSession(session)
                    [] OTHER -> loader(session, request.returnTo)
    /\ at' = "settled"
    /\ UNCHANGED <<handler, request, session, response, apiCalls>>
    /\ UNCHANGED beside

\* the issues of the submitted form under the action's schema
issuesOf(h, form) ==
    IF h = "login.action"
    THEN loginSchema([email |-> form.email, password |-> form.password])
    ELSE registerSchema(form)

\* an action that calls the auth API whatever safeParse said
Action_Parse_noEarlyReturn ==
    /\ at = "parse"
    /\ at' = "callApi"
    /\ UNCHANGED <<handler, request, session, response, settled, apiCalls>>
    /\ UNCHANGED beside

\* action: formData, safeParse, and the early return when it failed
Action_Parse ==
    /\ at = "parse"
    /\ LET issues == issuesOf(handler, request.form)
       IN  IF issues # <<>>
           THEN /\ settled' = IF handler = "login.action"
                              THEN Returns([error |-> issues[1].message])
                              ELSE Returns([errors |-> fieldErrors(issues)])
                /\ at' = "settled"
           ELSE /\ at' = "callApi"
                /\ UNCHANGED settled
    /\ UNCHANGED <<handler, request, session, response, apiCalls>>
    /\ UNCHANGED beside

\* await auth.api.signInEmail / signUpEmail: a response, or a rejection, which
\* the login action lets through and the register action catches
Action_CallApi ==
    /\ at = "callApi"
    /\ LET api == IF handler = "login.action" THEN "signInEmail" ELSE "signUpEmail"
       IN  \/ /\ apiCalls' = Append(apiCalls, ApiCall(api, "rejected"))
              /\ settled' =
                    IF handler = "login.action"
                    THEN Throws(ApiError)
                    ELSE Returns([errors |->
                                    [form |-> "An unexpected error occurred."]])
              /\ at' = "settled"
              /\ UNCHANGED response
           \/ /\ apiCalls' = Append(apiCalls, ApiCall(api, "answered"))
              /\ \E r \in ApiResponses : response' = r
              /\ at' = "respond"
              /\ UNCHANGED settled
    /\ UNCHANGED <<handler, request, session>>
    /\ UNCHANGED beside

\* the action redirecting with the response's headers whatever response.ok is
respond_ignoresOk(h, resp, returnTo) ==
    Returns(redirect(orRoot(returnTo), resp.headers))

\* if (!response.ok) return the error; return redirect(returnTo ?? "/", headers)
respond(h, resp, returnTo) ==
    IF ~resp.ok
    THEN IF h = "login.action"
         THEN Returns([error |-> "Invalid email or password"])
         ELSE Returns([errors |->
                [form |-> "Failed to create account. Email may already be in use."]])
    ELSE Returns(redirect(orRoot(returnTo), resp.headers))

Action_Respond ==
    /\ at = "respond"
    /\ settled' = respond(handler, response, request.returnTo)
    /\ at' = "settled"
    /\ UNCHANGED <<handler, request, session, response, apiCalls>>
    /\ UNCHANGED beside

AuthNext ==
    \/ CallHandler
    \/ GetSession
    \/ CheckSession
    \/ Action_Parse
    \/ Action_CallApi
    \/ Action_Respond

AuthSpec == Init /\ [][AuthNext]_vars

----------------------------------------------------------------------------
(* Vocabulary of the properties *)

\* sig stands at offset 0 of buf
StartsWith(buf, sig) ==
    Len(buf) >= Len(sig) /\ SubSeq(buf, 1, Len(sig)) = sig

\* buf carries one of the table's signatures of kind mt at offset 0 and, for
\* WebP, the four bytes "WEBP" at offsets 8..11
MatchesKind(buf, mt) ==
    /\ \E s \in 1..Len(MAGIC_BYTES[mt]) : StartsWith(buf, MAGIC_BYTES[mt][s])
    /\ mt = "image/webp" =>
          Len(buf) >= 12 /\ SubSeq(buf, 9, 12) = WEBP

Kinds == DOMAIN MAGIC_BYTES

SizeInRange(f) == 0 < f.size /\ f.size <= MAX_FILE_SIZE

RECURSIVE SumOfSizes(_)
\* the sum of the declared sizes of a batch
SumOfSizes(fs) ==
    IF fs = <<>> THEN 0 ELSE Head(fs).size + SumOfSizes(Tail(fs))

\* validateFile would reject f
Rejectable(f) == ~SizeInRange(f) \/ detectMimeType(f.bytes) = Null

\* the rejection validateFile gives a rejectable file
RejectionOf(f) ==
    IF ~SizeInRange(f)
    THEN Rejected(SizeError(f.name))
    ELSE Rejected(NotImageError(f.name))

\* the first rejectable file of a batch that has one
FirstRejectable(fs) ==
    CHOOSE k \in 1..Len(fs) :
        Rejectable(fs[k]) /\ \A j \in 1..(k - 1) : ~Rejectable(fs[j])

\* the indices of the events of kind op, in the order they happened
RECURSIVE IndicesOf(_, _)
IndicesOf(tr, op) ==
    IF tr = <<>> THEN <<>>
    ELSE IF Head(tr).op = op
         THEN <<Head(tr).i>> \o IndicesOf(Tail(tr), op)
         ELSE IndicesOf(Tail(tr), op)

NoBytesRead == \A k \in 1..Len(trace) : trace[k].op # "arrayBuffer"

ReturnedFrom(f) == pc = "done" /\ fn = f

\* the kind a result carries, if any
KindOf(r) == IF "mimeType" \in DOMAIN r THEN r.mimeType ELSE Null

----------------------------------------------------------------------------
(* C1 *)

\* C1: whenever validateFiles has returned on a non-empty batch whose declared
\* sizes sum to more than MAX_TOTAL_SIZE, it returned the total-size rejection
\* and arrayBuffer was called on no file, also when a member would fail its
\* own size check.
C1_TotalSizeRejectedUnread ==
    (ReturnedFrom("validateFiles") /\ Len(files) > 0
        /\ SumOfSizes(files) > MAX_TOTAL_SIZE)
    => (ret = Rejected(TotalSizeError) /\ NoBytesRead)

\* a 10 MiB and an 11 MiB file, each over the per-file cap, rejected as a batch
C1_Witness ==
    /\ ReturnedFrom("validateFiles")
    /\ Len(files) = 2
    /\ files[1].size = 10 * 1024 * 1024
    /\ files[2].size = 11 * 1024 * 1024
    /\ ret = Rejected(TotalSizeError)

----------------------------------------------------------------------------
(* C2 *)

\* C2: whenever validateFiles has returned on a batch that passed the total
\* size check and holds a file validateFile rejects, the returned value is
\* the rejection of the first such file (valid and error, nothing else), the
\* files were validated in input order up to that file, and no later file
\* was validated or read.
C2_StopsAtFirstRejection ==
    (ReturnedFrom("validateFiles") /\ Len(files) > 0
        /\ SumOfSizes(files) <= MAX_TOTAL_SIZE
        /\ \E i \in 1..Len(files) : Rejectable(files[i]))
    => LET k == FirstRejectable(files)
       IN  /\ ret = RejectionOf(files[k])
           /\ DOMAIN ret = {"valid", "error"}
           /\ IndicesOf(trace, "validateFileSize") = [i \in 1..k |-> i]
           /\ \A e \in 1..Len(trace) : trace[e].i <= k

\* a batch whose second file is rejected and whose third would be rejected too
C2_Witness ==
    /\ ReturnedFrom("validateFiles")
    /\ Len(files) >= 3
    /\ SumOfSizes(files) <= MAX_TOTAL_SIZE
    /\ ~Rejectable(files[1])
    /\ Rejectable(files[2])
    /\ Rejectable(files[3])
    /\ files[3].name # files[2].name
    /\ ret = RejectionOf(files[2])

----------------------------------------------------------------------------
(* C3 *)

\* C3: whenever validateFiles has returned, the result is valid exactly when
\* the batch is empty, or the declared sizes sum to at most MAX_TOTAL_SIZE and
\* every file has a declared size in (0, MAX_FILE_SIZE] and bytes that
\* detectMimeType recognises.
C3_AcceptedIffWithinLimits ==
    ReturnedFrom("validateFiles")
    => (ret.valid
          <=> \/ Len(files) = 0
              \/ /\ SumOfSizes(files) <= MAX_TOTAL_SIZE
                 /\ \A i \in 1..Len(files) :
                       /\ SizeInRange(files[i])
                       /\ detectMimeType(files[i].bytes) # Null)

\* an accepted batch whose total is exactly MAX_TOTAL_SIZE
C3_Witness ==
    /\ ReturnedFrom("validateFiles")
    /\ Len(files) = 4
    /\ SumOfSizes(files) = MAX_TOTAL_SIZE
    /\ ret.valid

----------------------------------------------------------------------------
(* C4 *)

\* C4: whenever detectMimeType has returned, it returned kind K if the buffer
\* carries one of K's signatures (for WebP: RIFF and bytes 8..11 equal to
\* "WEBP"), and null if the buffer carries no kind's signature.
C4_DetectsExactlyTheTable ==
    ReturnedFrom("detectMimeType")
    => /\ \A mt \in Kinds : MatchesKind(buffer, mt) => ret = mt
       /\ (\A mt \in Kinds : ~MatchesKind(buffer, mt)) => ret = Null

----------------------------------------------------------------------------
(* C5 *)

\* C5: whenever validateFile has accepted a file with kind K, and for every
\* entry of the validatedFiles that validateFiles returned, the file's bytes
\* carry one of K's signatures at offset 0 (for WebP also "WEBP" at 8..11).
C5_AcceptedMatchesSignature ==
    /\ (ReturnedFrom("validateFile") /\ ret.valid)
          => MatchesKind(files[1].bytes, ret.mimeType)
    /\ (ReturnedFrom("validateFiles") /\ ret.valid)
          => \A i \in 1..Len(ret.validatedFiles) :
                MatchesKind(ret.validatedFiles[i].file.bytes,
                            ret.validatedFiles[i].mimeType)

----------------------------------------------------------------------------
(* C6 *)

\* C6: whenever validateFile has returned for a file that has the declared
\* size and the bytes of the file of the validateFile call before it, the two
\* results have the same valid flag and the same detected kind, whatever the
\* two names and declared MIME types are.
C6_MetadataIgnored ==
    (ReturnedFrom("validateFile") /\ prev # None
        /\ prev.file.size = files[1].size
        /\ prev.file.bytes = files[1].bytes)
    => /\ ret.valid = prev.result.valid
       /\ KindOf(ret) = KindOf(prev.result)

\* two accepted files alike in size and bytes: one declared as a PNG image,
\* the other declared as plain text, neither declaration being the kind
C6_Witness ==
    /\ ReturnedFrom("validateFile")
    /\ prev # None
    /\ prev.file.size = files[1].size
    /\ prev.file.bytes = files[1].bytes
    /\ prev.file.name # files[1].name
    /\ prev.file.type = "image/png"
    /\ files[1].type = "text/plain"
    /\ ret = Accepted("image/jpeg")

----------------------------------------------------------------------------
(* C7 *)

\* C7: in every state, a file whose bytes were read or handed to
\* detectMimeType had its size checked before and passed the check; and
\* whenever validateFile returns for a file whose declared size fails the
\* check, it returns the size-exceeded error naming the file.
C7_SizeCheckedFirst ==
    /\ \A k \in 1..Len(trace) :
          trace[k].op \in {"arrayBuffer", "detectMimeType"}
          => /\ SizeInRange(files[trace[k].i])
             /\ \E j \in 1..(k - 1) :
                   trace[j] = Event("validateFileSize", trace[k].i)
    /\ (pc = "vf_return" /\ ~SizeInRange(files[idx]))
          => result = Rejected(SizeError(files[idx].name))

\* a file over the cap whose bytes are a valid PNG, rejected unread
C7_Witness ==
    /\ pc = "vf_return"
    /\ files[idx].size > MAX_FILE_SIZE
    /\ detectMimeType(files[idx].bytes) = "image/png"
    /\ result = Rejected(SizeError(files[idx].name))
    /\ NoBytesRead

----------------------------------------------------------------------------
(* C8 *)

\* C8: whenever validateFile returns the size-exceeded rejection, the file's
\* declared size is over MAX_FILE_SIZE.
C8_SizeExceededOnlyOverCap ==
    (pc = "vf_return" /\ result = Rejected(SizeError(files[idx].name)))
    => files[idx].size > MAX_FILE_SIZE

----------------------------------------------------------------------------
(* C9 *)

\* C9: whenever validateFile returns, it returns Accepted with kind K exactly
\* when the declared size is in (0, MAX_FILE_SIZE] and detectMimeType of the
\* bytes is K; and when detectMimeType ran and returned null, it returns the
\* not-a-valid-image error naming the file.
C9_AcceptedIffSizeAndKind ==
    pc = "vf_return"
    => LET f == files[idx]
       IN  /\ \A mt \in Kinds :
                 result = Accepted(mt)
                 <=> (SizeInRange(f) /\ detectMimeType(f.bytes) = mt)
           /\ result.valid => KindOf(result) \in Kinds
           /\ ((\E k \in 1..Len(trace) : trace[k] = Event("detectMimeType", idx))
                  /\ detectMimeType(buffer) = Null)
              => result = Rejected(NotImageError(f.name))

\* a PNG of 9 bytes declared as 100 bytes, accepted as a PNG
C9_Witness ==
    /\ pc = "vf_return"
    /\ files[idx].size = 100
    /\ Len(files[idx].bytes) < 100
    /\ StartsWith(files[idx].bytes, PNG_SIG)
    /\ result = Accepted("image/png")

----------------------------------------------------------------------------
(* C10 *)

\* C10: whenever detectMimeType has returned for a buffer that starts with
\* "RIFF" and is shorter than 12 bytes or has other bytes than "WEBP" at
\* offsets 8..11, it returned null.
C10_RiffWithoutWebpIsNull ==
    (ReturnedFrom("detectMimeType") /\ StartsWith(buffer, RIFF)
        /\ (Len(buffer) < 12 \/ SubSeq(buffer, 9, 12) # WEBP))
    => ret = Null

----------------------------------------------------------------------------
(* C11 *)

\* C11: whenever validateFileSize has returned for an integer size, it
\* returned true exactly when 0 < size <= 5*1024*1024.
C11_FileSizeInRange ==
    ReturnedFrom("validateFileSize")
    => (ret <=> (0 < arg /\ arg <= 5 * 1024 * 1024))

\* the largest size that passes
C11_Witness ==
    /\ ReturnedFrom("validateFileSize")
    /\ arg = 5 * 1024 * 1024
    /\ ret = TRUE

----------------------------------------------------------------------------
(* C12 *)

\* C12: whenever validateTotalSize has returned for an integer total, it
\* returned true exactly when total <= 20*1024*1024; zero and negative totals
\* pass.
C12_TotalSizeUpperBoundOnly ==
    ReturnedFrom("validateTotalSize")
    => (ret <=> arg <= 20 * 1024 * 1024)

\* a total of zero passes
C12_Witness ==
    /\ ReturnedFrom("validateTotalSize")
    /\ arg = 0
    /\ ret = TRUE

----------------------------------------------------------------------------
(* C18 *)

\* C18: whenever getFileExtension has returned for one of the four allowed
\* kinds, it returned .png for PNG, .jpg for JPEG, .gif for GIF and .webp for
\* WEBP.
C18_CanonicalExtension ==
    ReturnedFrom("getFileExtension")
    => /\ arg = "image/png"  => ret = ".png"
       /\ arg = "image/jpeg" => ret = ".jpg"
       /\ arg = "image/gif"  => ret = ".gif"
       /\ arg = "image/webp" => ret = ".webp"
       /\ ret \in {".png", ".jpg", ".gif", ".webp"}

\* the extension of a JPEG
C18_Witness ==
    /\ ReturnedFrom("getFileExtension")
    /\ arg = "image/jpeg"
    /\ ret = ".jpg"

----------------------------------------------------------------------------
(* C19 *)

RECURSIVE DigitsValue(_)
\* the number a sequence of decimal digits writes
DigitsValue(ds) ==
    IF ds = <<>> THEN 0
    ELSE 10 * DigitsValue(SubSeq(ds, 1, Len(ds) - 1)) + (ds[Len(ds)] - 48)

\* the code units the class [a-zA-Z0-9.-] holds
SafeCodes == (97..122) \cup (65..90) \cup (48..57) \cup {46, 45}

\* C19: whenever generateStorageKey has returned, the key is the folder, "/",
\* the entity id, "/", the timestamp in decimal, "-" and the sanitized file
\* name, in that order and with nothing else; the sanitized name has the
\* length of the file name, keeps the characters of [a-zA-Z0-9.-] and has "_"
\* at every other position, holds no "/", and is left as it is by sanitizing
\* it again.
C19_StorageKeyShape ==
    ReturnedFrom("generateStorageKey")
    => LET head == arg.folder \o <<47>> \o arg.entityId \o <<47>>
           n == Len(arg.filename)
           stamp == SubSeq(ret, Len(head) + 1, Len(ret) - n - 1)
           safe == SubSeq(ret, Len(ret) - n + 1, Len(ret))
       IN  /\ Len(ret) >= Len(head) + n + 2
           /\ SubSeq(ret, 1, Len(head)) = head
           /\ \A i \in 1..Len(stamp) : stamp[i] \in 48..57
           /\ DigitsValue(stamp) = arg.now
           /\ Len(stamp) > 1 => stamp[1] # 48
           /\ ret[Len(ret) - n] = 45
           /\ Len(safe) = n
           /\ \A i \in 1..n :
                 safe[i] = IF arg.filename[i] \in SafeCodes
                           THEN arg.filename[i]
                           ELSE 95
           /\ \A i \in 1..n : safe[i] # 47
           /\ replaceUnsafe(safe) = safe

\* the key of the file name "/ " (a slash and a space) at time 10
C19_Witness ==
    /\ ReturnedFrom("generateStorageKey")
    /\ arg.filename = <<47, 32>>
    /\ arg.now = 10
    /\ arg.entityId = <<52, 50>>
    /\ SubSeq(ret, Len(ret) - 4, Len(ret)) = <<49, 48, 45, 95, 95>>

----------------------------------------------------------------------------
(* C13 *)

\* C13: whenever validateFiles has returned on an empty batch, it returned
\* valid with an empty validatedFiles, and neither the total size check nor
\* any other call was made.
C13_EmptyBatchAccepted ==
    (ReturnedFrom("validateFiles") /\ Len(files) = 0)
    => /\ ret = [valid |-> TRUE, validatedFiles |-> <<>>]
       /\ trace = <<>>

\* validateFiles([]) has returned
C13_Witness ==
    /\ ReturnedFrom("validateFiles")
    /\ files = <<>>
    /\ ret.valid
    /\ ret.validatedFiles = <<>>

----------------------------------------------------------------------------
(* C16 *)

\* C16: every call that is under way can take its next step (none ends in
\* another way than by returning), and whenever detectMimeType, validateFile
\* or validateFiles has returned, it returned a value: a kind or null for
\* detectMimeType, and for the other two an object with a boolean valid that,
\* when valid is false, carries a non-empty error message.
C16_FailuresAreReturnedValues ==
    /\ pc \notin {"idle", "done"} => ENABLED Next
    /\ ReturnedFrom("detectMimeType") => ret \in Kinds \cup {Null}
    /\ (ReturnedFrom("validateFile") \/ ReturnedFrom("validateFiles"))
          => /\ ret # Undefined
             /\ "valid" \in DOMAIN ret
             /\ ret.valid \in BOOLEAN
             /\ ~ret.valid => ("error" \in DOMAIN ret /\ ret.error # "")

\* a file with no bytes at all and a negative declared size, and a file with
\* no bytes and a size in range: both rejected by a returned value
C16_Witness ==
    /\ ReturnedFrom("validateFile")
    /\ files[1].bytes = <<>>
    /\ files[1].size = 1
    /\ ret = Rejected(NotImageError(files[1].name))
    /\ prev # None
    /\ prev.file.bytes = <<>>
    /\ prev.file.size < 0
    /\ ~prev.result.valid

----------------------------------------------------------------------------
(* C17 *)

\* C17: no step of a call changes the array it was given or a file in it
\* (name, declared type, declared size, bytes): from the call to the return
\* the input stays what it was.
C17_InputUnchanged ==
    [][(pc # "idle" /\ pc' # "idle") => files' = files]_vars

\* a batch of three files, all read and accepted
C17_Witness ==
    /\ ReturnedFrom("validateFiles")
    /\ Len(files) = 3
    /\ ret.valid
    /\ Len(ret.validatedFiles) = 3
    /\ IndicesOf(trace, "arrayBuffer") = <<1, 2, 3>>

----------------------------------------------------------------------------
(* C14 *)

\* C14: in every sequence of detectMimeType, validateFile and validateFiles
\* calls, whenever a call has returned that was given what a call remembered
\* from earlier in the sequence was given, it returned what that call
\* returned, whatever calls were made in between.
C14_SameInputSameOutcome ==
    (pc = "done" /\ seen # None /\ seen.input = Input) => ret = seen.ret

\* validateFile of a file, then of another file, then of the first again
C14_Witness ==
    /\ ReturnedFrom("validateFile")
    /\ seen # None
    /\ seen.input = Input
    /\ prev # None
    /\ prev.file # files[1]
    /\ prev.result # ret

----------------------------------------------------------------------------
(* C15 *)

\* what a call returned is what the remembered call, which ran alone on the
\* same batch, returned
AsWhenAlone(c) ==
    (c.pc = "done" /\ c.files = seen.input.files) => c.ret = seen.ret

\* C15: whenever two validateFiles calls are under way at once, handing
\* control to each other at their awaits in any order, each call that has
\* returned has returned what validateFiles returned for the same batch when
\* it ran alone.
C15_InterleavedAsAlone ==
    (other # None /\ seen # None) => (AsWhenAlone(Context) /\ AsWhenAlone(other))

\* the remembered batch of two files, accepted, and a different batch,
\* rejected, both validated at once and both returned
C15_Witness ==
    /\ other # None
    /\ seen # None
    /\ pc = "done"
    /\ other.pc = "done"
    /\ files = seen.input.files
    /\ Len(files) = 2
    /\ ret.valid
    /\ Len(other.files) = 2
    /\ ~other.ret.valid
    /\ Len(other.trace) > 2


----------------------------------------------------------------------------
(* C20 *)

\* positions of this run's events
EventAt == 1..Len(events)

MigrationCommands == {"pnpm db:generate", "pnpm db:migrate"}

\* event k is a migration command being run, whatever came of it
IsMigration(k) == events[k].op = "exec" /\ events[k].what \in MigrationCommands

IsSetupComplete(k) == events[k].op = "print" /\ events[k].what = "Setup complete!"

\* event k is a readiness probe that succeeded
IsReadyProbe(k) ==
    events[k].op = "exec" /\ events[k].what = "pg_isready" /\ events[k].ok

DockerNotRunning ==
    \E k \in EventAt :
        events[k].op = "exec" /\ events[k].what = "docker info" /\ ~events[k].ok

\* the run is over and none of its probes succeeded
NeverReady == step = "exited" /\ ~(\E k \in EventAt : IsReadyProbe(k))

\* C20: in a run of the setup script a migration command (db:generate,
\* db:migrate) is run only after a readiness probe has succeeded, and so is
\* "Setup complete" printed; a run that found Docker not running, or in which
\* PostgreSQL never reported ready, has run no migration command and has not
\* printed "Setup complete".
C20_MigrationsOnlyAfterReady ==
    /\ \A k \in EventAt :
          IsMigration(k) \/ IsSetupComplete(k)
              => \E j \in 1..(k - 1) : IsReadyProbe(j)
    /\ DockerNotRunning \/ NeverReady
          => \A k \in EventAt : ~IsMigration(k) /\ ~IsSetupComplete(k)
    /\ DockerNotRunning => ~(\E k \in EventAt : events[k].what = "pg_isready")

\* a run in which some probes failed, one succeeded, both migrations ran and
\* "Setup complete" was printed
C20_Witness ==
    /\ step = "exited"
    /\ attempts > 0
    /\ \E k \in EventAt : IsReadyProbe(k)
    /\ \E k \in EventAt : events[k] = [op |-> "exec", what |-> "pnpm db:migrate", ok |-> TRUE]
    /\ \E k \in EventAt : IsSetupComplete(k)

\* a run that gave up after 30 failed probes
C20_WitnessNeverReady ==
    /\ NeverReady
    /\ attempts = 30
    /\ exitCode = 1

\* a run that found Docker not running
C20_WitnessDockerNotRunning == DockerNotRunning /\ step = "exited" /\ exitCode = 0

----------------------------------------------------------------------------
(* C26 *)

\* C26: whenever validateFiles has returned an accepting result on a
\* non-empty batch, validatedFiles has one entry per input file, in input
\* order, and entry i holds input file i and what detectMimeType gives for
\* that file's bytes.
C26_OneEntryPerFileInOrder ==
    (ReturnedFrom("validateFiles") /\ Len(files) > 0 /\ ret.valid)
    => /\ DOMAIN ret = {"valid", "validatedFiles"}
       /\ Len(ret.validatedFiles) = Len(files)
       /\ \A i \in 1..Len(files) :
             /\ ret.validatedFiles[i].file = files[i]
             /\ ret.validatedFiles[i].mimeType = detectMimeType(files[i].bytes)

\* an accepted batch of a PNG and a WebP file, and of the same two the other
\* way round
C26_Witness ==
    /\ ReturnedFrom("validateFiles")
    /\ ret.valid
    /\ Len(files) = 2
    /\ files[1].name = "b.webp"
    /\ files[2].name = "a.png"
    /\ ret.validatedFiles[1].mimeType = "image/webp"
    /\ ret.validatedFiles[2].mimeType = "image/png"

----------------------------------------------------------------------------
(* C27 *)

\* the files read so far during this call, in the order they were read
Reads == IndicesOf(trace, "arrayBuffer")

\* C27: at every moment of a validateFiles call, the files read so far are
\* files 1, 2, ..., n in this order, each once, and every file before the
\* last one read has been accepted into validatedFiles.
C27_ReadOnceInOrderAfterAccept ==
    fn = "validateFiles"
    => /\ Reads = [k \in 1..Len(Reads) |-> k]
       /\ Len(Reads) <= Len(files)
       /\ Len(validatedFiles) >= Len(Reads) - 1
       /\ \A k \in 1..(Len(Reads) - 1) : validatedFiles[k].file = files[k]

\* a call that has read three files, the third of which is not an image
C27_Witness ==
    /\ ReturnedFrom("validateFiles")
    /\ Reads = <<1, 2, 3>>
    /\ Len(files) > 3
    /\ ~ret.valid

----------------------------------------------------------------------------
(* C28 *)

\* buf starts with one of the signatures of kind mt
CarriesSignatureOf(buf, mt) ==
    \E s \in 1..Len(MAGIC_BYTES[mt]) : StartsWith(buf, MAGIC_BYTES[mt][s])

\* two signatures differ at a position both have, so that no buffer, however
\* long, starts with both
Disagree(sig1, sig2) ==
    \E i \in 1..Len(sig1) : i <= Len(sig2) /\ sig1[i] # sig2[i]

\* C28: any two signatures of different kinds of the table disagree at a
\* position both have; the buffer handed to detectMimeType starts with
\* signatures of at most one kind; and the value detectMimeType returned is
\* the value it gives with the kinds iterated in any order and the signatures
\* of a kind iterated front to back or back to front.
C28_DetectionIndependentOfOrder ==
    /\ \A m1, m2 \in Kinds :
          m1 # m2 =>
             \A s1 \in 1..Len(MAGIC_BYTES[m1]), s2 \in 1..Len(MAGIC_BYTES[m2]) :
                Disagree(MAGIC_BYTES[m1][s1], MAGIC_BYTES[m2][s2])
    /\ ReturnedFrom("detectMimeType") =>
          /\ \A m1, m2 \in Kinds :
                CarriesSignatureOf(buffer, m1) /\ CarriesSignatureOf(buffer, m2)
                   => m1 = m2
          /\ \A order \in KeyOrders, backwards \in BOOLEAN :
                detectInOrder(buffer, order, backwards) = ret

\* detectMimeType has returned image/png for a buffer that carries the PNG
\* signature and, at offsets 8..11, the bytes "WEBP"
C28_Witness ==
    /\ ReturnedFrom("detectMimeType")
    /\ StartsWith(buffer, PNG_SIG)
    /\ Len(buffer) >= 12
    /\ SubSeq(buffer, 9, 12) = WEBP
    /\ ret = "image/png"

----------------------------------------------------------------------------
(* C29 *)

\* the run has ended and printed "Setup complete!"
EndedComplete == step = "exited" /\ \E k \in EventAt : IsSetupComplete(k)

----------------------------------------------------------------------------
(* C23 *)

\* the readiness probes of this run, and those of them that failed
Probes ==
    {k \in EventAt : events[k].op = "exec" /\ events[k].what = "pg_isready"}

FailedProbes == {k \in Probes : ~events[k].ok}

SucceededProbes == {k \in Probes : events[k].ok}

RanMigration == \E k \in EventAt : IsMigration(k)

\* the run ended with status 1 in its wait loop: after the first probe and
\* before any migration command
ExitedOneFromLoop ==
    step = "exited" /\ exitCode = 1 /\ Probes # {} /\ ~RanMigration

\* what holds of the wait loop in every state of a run
WaitLoopBounded ==
    /\ Cardinality(Probes) <= 30
    /\ \A k \in SucceededProbes : \A j \in Probes : j <= k
    /\ ExitedOneFromLoop <=> (step = "exited" /\ Cardinality(FailedProbes) = 30)
    /\ Cardinality(FailedProbes) = 30 => step # "migrate" /\ ~RanMigration
    /\ (script = "spinup-db" /\ SucceededProbes # {})
          => step = "exited" /\ exitCode = 0
    /\ (script # "spinup-db" /\ SucceededProbes # {})
          => /\ step \in {"waited", "migrate", "exited"}
             /\ step = "exited" => RanMigration

InWaitLoop == step \in {"wait", "spinup_wait"}

PastWaitLoop == step \in {"migrate", "exited"}

C23_WitnessLastProbe ==
    /\ script = "setup.js"
    /\ Cardinality(FailedProbes) = 29
    /\ SucceededProbes # {}
    /\ step = "migrate"

----------------------------------------------------------------------------
(* C21 *)

\* handler h has run to its end
SettledIn(h) == at = "settled" /\ handler = h

\* auth.api.getSession was called once, first, and answered
GetSessionAnswered ==
    /\ Len(apiCalls) = 1
    /\ apiCalls[1] = [api |-> "getSession", answer |-> "answered"]

\* a redirect to url that sets no headers
PlainRedirectTo(url) == [status |-> 302, location |-> url, headers |-> NoHeaders]

\* C21: when getSession has answered, requireSession has returned the session
\* if there is one and has otherwise thrown a redirect to /login, returning
\* nothing; requireNoSession has thrown a redirect to / if there is a session
\* and has otherwise returned normally (undefined).
C21_SessionGating ==
    /\ (SettledIn("requireSession") /\ GetSessionAnswered)
          => IF session # JsNull
             THEN settled = [how |-> "returned", value |-> session]
             ELSE settled = [how |-> "threw", value |-> PlainRedirectTo("/login")]
    /\ (SettledIn("requireNoSession") /\ GetSessionAnswered)
          => IF session # JsNull
             THEN settled = [how |-> "threw", value |-> PlainRedirectTo("/")]
             ELSE settled = [how |-> "returned", value |-> Undefined]

\* requireSession on a request with a stale cookie: redirected to /login
C21_Witness ==
    /\ SettledIn("requireSession")
    /\ GetSessionAnswered
    /\ request.headers = "cookie: stale"
    /\ session = JsNull
    /\ settled.how = "threw"

----------------------------------------------------------------------------
(* C22 *)

RunningAction == handler \in ActionHandlers

\* the submitted form fails the schema of the action that is running
FailsSchema == issuesOf(handler, request.form) # <<>>

\* the value is the action's error value: {error} with a message for login,
\* {errors} with at least one field for register
IsErrorValue(v) ==
    IF handler = "login.action"
    THEN DOMAIN v = {"error"}
    ELSE DOMAIN v = {"errors"} /\ DOMAIN v.errors # {}

\* C22: while the login or register action runs on a form that fails its
\* schema, no call of the auth API has been made, and when the action has
\* ended it has returned its error value.
C22_InvalidFormNeverReachesApi ==
    (RunningAction /\ FailsSchema)
    => /\ apiCalls = <<>>
       /\ at \in {"parse", "settled"}
       /\ at = "settled" => settled.how = "returned" /\ IsErrorValue(settled.value)

\* the register action on a form whose only fault is the confirmation
C22_Witness ==
    /\ SettledIn("register.action")
    /\ request.form.name = Str(<<"a", "b">>)
    /\ request.form.email.type = "string"
    /\ isEmail(request.form.email.chars)
    /\ request.form.password = Str(Repeat("p", 8))
    /\ request.form.confirmPassword = Str(<<"x">>)
    /\ settled = Returns([errors |-> [confirmPassword |-> "Passwords don't match"]])
    /\ apiCalls = <<>>

----------------------------------------------------------------------------
(* C24 *)

IsRedirect(v) == "location" \in DOMAIN v

\* the auth API was called once and this is how the call ended
ApiAnswer == IF Len(apiCalls) = 1 THEN apiCalls[1].answer ELSE "not called"

\* C24: when the login or register action has ended after calling the auth
\* API: if the response was ok it returned a redirect to returnTo, or to /
\* when the form has no returnTo, carrying the response's headers; if the
\* response was not ok it returned its error value, which is no redirect and
\* carries no headers; and the register action whose sign-up call threw
\* returned a form error.  An action never redirects without an ok response.
C24_RedirectOnlyWhenOk ==
    (RunningAction /\ at = "settled")
    => /\ (ApiAnswer = "answered" /\ response.ok)
             => settled = [how |-> "returned",
                           value |-> [status |-> 302,
                                      location |-> IF request.returnTo = Null
                                                   THEN "/"
                                                   ELSE request.returnTo,
                                      headers |-> response.headers]]
       /\ (ApiAnswer = "answered" /\ ~response.ok)
             => /\ settled.how = "returned"
                /\ IsErrorValue(settled.value)
       /\ (ApiAnswer = "rejected" /\ handler = "register.action")
             => /\ settled.how = "returned"
                /\ DOMAIN settled.value = {"errors"}
                /\ DOMAIN settled.value.errors = {"form"}
       /\ IsRedirect(settled.value) => ApiAnswer = "answered" /\ response.ok

\* the register action after a sign-up call that threw
C24_Witness ==
    /\ SettledIn("register.action")
    /\ ApiAnswer = "rejected"
    /\ settled.how = "returned"

\* the login action redirecting to / with the cookie of the response
C24_WitnessRedirect ==
    /\ SettledIn("login.action")
    /\ request.returnTo = Null
    /\ IsRedirect(settled.value)
    /\ settled.value.location = "/"
    /\ settled.value.headers = "set-cookie: token=2"

----------------------------------------------------------------------------
(* C25 *)

RanLoader == at = "settled" /\ handler \in {"login.loader", "register.loader"}

\* C25: when the login or register loader has ended after getSession
\* answered: for a request with a session it threw a redirect to the returnTo
\* query parameter, or to / when there is none; for a request without a
\* session it returned {returnTo}.  Whatever getSession did, a loader that
\* returned was given a request without a session.
C25_LoaderRedirectsSession ==
    /\ (RanLoader /\ GetSessionAnswered)
          => IF session # JsNull
             THEN settled =
                     [how |-> "threw",
                      value |-> PlainRedirectTo(IF request.returnTo = Null
                                                THEN "/"
                                                ELSE request.returnTo)]
             ELSE settled = [how |-> "returned",
                             value |-> [returnTo |-> request.returnTo]]
    /\ (RanLoader /\ settled.how = "returned")
          => request.headers # "cookie: valid"

\* the register loader on a request with a session and no returnTo
C25_Witness ==
    /\ SettledIn("register.loader")
    /\ request.headers = "cookie: valid"
    /\ request.returnTo = Null
    /\ settled = [how |-> "threw", value |-> PlainRedirectTo("/")]

====
